---- MODULE Spec2Model ----
(***************************************************************************)
(* The /process-notion-content request pipeline of src/server.js: content  *)
(* resolution (request text or paginated extraction from the document      *)
(* store), prompt building, the generator call and the append of the       *)
(* generated text, with every response the handler can send.               *)
(*                                                                         *)
(* JavaScript strings are sequences of one-character strings; messages     *)
(* and prompts are sequences whose fixed template parts are single tokens. *)
(* undefined and null are one-element sequences holding a marker token,    *)
(* so that every JavaScript value the handler tests is comparable.         *)
(***************************************************************************)
EXTENDS Integers, Sequences, FiniteSets, TLC

\* ------------------------------------------------------------------ bounds

\* Longest page (number of child blocks) the store holds at the start.
MaxBlocks == 2

\* ------------------------------------------------------- JavaScript values

Undefined == <<"<undefined>">>
Null == <<"<null>">>

\* JavaScript truthiness of undefined, null and strings: `!v` is ~Truthy(v).
Truthy(v) == v /= Undefined /\ v /= Null /\ v /= <<>>

Whitespace == {" ", "\n"}

\* String.prototype.trim: cut leading and trailing whitespace.
Trim(s) ==
    LET keep == {i \in 1..Len(s) : s[i] \notin Whitespace} IN
    IF keep = {} THEN <<>>
    ELSE LET lo == CHOOSE i \in keep : \A j \in 1..(i - 1) : s[j] \in Whitespace
             hi == CHOOSE i \in keep : \A j \in (i + 1)..Len(s) : s[j] \in Whitespace
         IN SubSeq(s, lo, hi)

\* `!v || v.trim() === ''` (server.js lines 141 and 144).
IsBlank(v) == ~Truthy(v) \/ Trim(v) = <<>>

\* t occurs in s as a contiguous run.
Contains(s, t) ==
    \E i \in 0..(Len(s) - Len(t)) : SubSeq(s, i + 1, i + Len(t)) = t

Min(a, b) == IF a <= b THEN a ELSE b

\* ---------------------------------------------------------- configuration

\* page_size of every list call.
PageSize == 100

NotionClient == <<"<Client>">>
GenerativeModel == <<"<GenerativeModel gemini-1.0-pro>">>

\* The module-level initialisation: a handle exists iff its key is set.
InitNotion(haveKey) == IF haveKey THEN NotionClient ELSE Undefined
InitModel(haveKey) == IF haveKey THEN GenerativeModel ELSE Undefined

\* ------------------------------------------------------------ the inputs

PageIds == {"P1", "P2"}

ContentInputs == {Undefined, <<>>, <<" ">>, <<"x">>, <<" ", "x">>}
ActionInputs ==
    {Undefined, <<"summarize">>, <<"brainstorm">>, <<"action_items">>,
     <<"expand">>, <<"rewrite">>, <<"bogus">>}
PageIdInputs == {Undefined, <<>>} \cup {<<p>> : p \in PageIds}

Bodies == [content : ContentInputs, action : ActionInputs, notionPageId : PageIdInputs]

NoBody == [content |-> Undefined, action |-> Undefined, notionPageId |-> Undefined]

\* Blocks the store can hold: type and the plain_text of each rich_text span.
BlockSet ==
    {[type |-> "paragraph", rich_text |-> << <<"a">>, <<"b">> >>],
     [type |-> "paragraph", rich_text |-> << <<" ">> >>],
     [type |-> "paragraph", rich_text |-> << <<>> >>],
     [type |-> "heading_1", rich_text |-> << <<"h">> >>],
     [type |-> "to_do", rich_text |-> << <<"t">> >>]}

RECURSIVE SeqsUpTo(_, _)
SeqsUpTo(S, n) ==
    IF n = 0 THEN {<<>>}
    ELSE LET shorter == SeqsUpTo(S, n - 1) IN
         shorter \cup {Append(q, e) : q \in {q \in shorter : Len(q) = n - 1}, e \in S}

\* Texts the generator can answer with, and the messages of external failures.
GenTexts == {<<"S">>, <<"#", " ", "T">>, <<>>}
Causes == {<<"timeout">>, <<"unauthorized">>}

VARIABLES
    notion,             \* module-level document-store client, or Undefined
    model,              \* module-level generator handle, or Undefined
    store,              \* the document store: page id -> its child blocks
    pc,                 \* per request: where the handler is suspended
    req,                \* per request: req.body
    contentToProcess,   \* per request: the resolved text
    prompt,             \* per request
    geminiResponse,     \* per request
    sourceContent,      \* per request, part_000: the text sent to the generator
    generatedContent,   \* per request, part_000: the generator's text
    blocks,             \* per request: fetchNotionPageContent's accumulator
    cursor,             \* per request: fetchNotionPageContent's cursor
    nExtract,           \* per request: invocations of fetchNotionPageContent
    pageAtStart,        \* per request, history: the page when its extraction began
    calls,              \* per request: the external calls issued, in order
    replies,            \* per request: the replies received, in order
    responses           \* per request: the HTTP responses sent, in order

vars == <<notion, model, store, pc, req, contentToProcess, prompt, geminiResponse,
          sourceContent, generatedContent,
          blocks, cursor, nExtract, pageAtStart, calls, replies, responses>>

\* The requests of the run: the invocations of the handler.
Reqs == DOMAIN pc

\* --------------------------------------------------- the handler's locals

\* Mutant: the block accumulator is one module-level array, which every
\* request reads.
Local_SharedBlocks(r) ==
    [pc |-> pc[r], req |-> req[r], contentToProcess |-> contentToProcess[r],
     prompt |-> prompt[r], geminiResponse |-> geminiResponse[r],
     sourceContent |-> sourceContent[r], generatedContent |-> generatedContent[r],
     blocks |-> blocks["r1"], cursor |-> cursor[r], nExtract |-> nExtract[r],
     pageAtStart |-> pageAtStart[r],
     calls |-> calls[r], replies |-> replies[r], responses |-> responses[r]]

Local(r) ==
    [pc |-> pc[r], req |-> req[r], contentToProcess |-> contentToProcess[r],
     prompt |-> prompt[r], geminiResponse |-> geminiResponse[r],
     sourceContent |-> sourceContent[r], generatedContent |-> generatedContent[r],
     blocks |-> blocks[r], cursor |-> cursor[r], nExtract |-> nExtract[r],
     pageAtStart |-> pageAtStart[r],
     calls |-> calls[r], replies |-> replies[r], responses |-> responses[r]]

Commit(r, s) ==
    /\ pc' = [pc EXCEPT ![r] = s.pc]
    /\ req' = [req EXCEPT ![r] = s.req]
    /\ contentToProcess' = [contentToProcess EXCEPT ![r] = s.contentToProcess]
    /\ prompt' = [prompt EXCEPT ![r] = s.prompt]
    /\ geminiResponse' = [geminiResponse EXCEPT ![r] = s.geminiResponse]
    /\ sourceContent' = [sourceContent EXCEPT ![r] = s.sourceContent]
    /\ generatedContent' = [generatedContent EXCEPT ![r] = s.generatedContent]
    /\ blocks' = [blocks EXCEPT ![r] = s.blocks]
    /\ cursor' = [cursor EXCEPT ![r] = s.cursor]
    /\ nExtract' = [nExtract EXCEPT ![r] = s.nExtract]
    /\ pageAtStart' = [pageAtStart EXCEPT ![r] = s.pageAtStart]
    /\ calls' = [calls EXCEPT ![r] = s.calls]
    /\ replies' = [replies EXCEPT ![r] = s.replies]
    /\ responses' = [responses EXCEPT ![r] = s.responses]

\* res.status(status).json(body): the response is sent and the handler returns.
Respond(s, status, body) ==
    [s EXCEPT !.responses = Append(@, [status |-> status, body |-> body]),
              !.pc = "done"]

\* An external call is issued and the handler suspends on its await.
IssueCall(s, call, at) == [s EXCEPT !.calls = Append(@, call), !.pc = at]

\* The reply that resumes the handler.
Resume(s, reply) == [s EXCEPT !.replies = Append(@, reply)]

\* Mutant: the catch logs the error and returns without responding.
HandlerCatch_Silent(s, message) == [s EXCEPT !.pc = "done"]

\* The handler's catch: lines 187-190.
HandlerCatch(s, message) ==
    Respond(s, 500, [error |-> <<"Failed to process request: ">> \o message])

\* --------------------------------------------------------- prompt building

ValidActions ==
    {<<"summarize">>, <<"brainstorm">>, <<"action_items">>, <<"expand">>, <<"rewrite">>}

\* The switch of lines 156-174; only called for a case of the switch.
PromptFor(action, text) ==
    CASE action = <<"summarize">> ->
           <<"Summarize the following content concisely:\n\n">> \o text
      [] action = <<"brainstorm">> ->
           <<"Brainstorm ideas related to the following content:\n\n">> \o text
      [] action = <<"action_items">> ->
           <<"Extract key action items from the following content:\n\n">> \o text
      [] action = <<"expand">> ->
           <<"Expand on the following content in detail:\n\n">> \o text
      [] action = <<"rewrite">> ->
           <<"Rewrite the following content to be clearer and more engaging:\n\n">> \o text

GenerateCall(p) == [op |-> "generate", prompt |-> p]

\* Mutant: the text is trimmed before it is put into the prompt.
BuildPromptAndGenerate_Trimmed(s) ==
    IF s.req.action \in ValidActions
    THEN LET p == PromptFor(s.req.action, Trim(s.contentToProcess)) IN
         IssueCall([s EXCEPT !.prompt = p], GenerateCall(p), "awaitGenerate")
    ELSE Respond(s, 400, [error |-> <<"Invalid AI action specified.">>])

\* Lines 155-177: build the prompt and call the generator, or reject the action.
BuildPromptAndGenerate(s) ==
    IF s.req.action \in ValidActions
    THEN LET p == PromptFor(s.req.action, s.contentToProcess) IN
         IssueCall([s EXCEPT !.prompt = p], GenerateCall(p), "awaitGenerate")
    ELSE Respond(s, 400, [error |-> <<"Invalid AI action specified.">>])

\* -------------------------------------------------------------- extraction

\* One rich_text span of a paragraph (lines 64-68) and of a heading (70-74).
ParagraphSpan(plain_text) ==
    IF Truthy(plain_text) THEN plain_text \o <<"\n">> ELSE <<>>
HeadingSpan(plain_text) == plain_text \o <<"\n">>

RECURSIVE SpansText(_, _)
SpansText(rich_text, heading) ==
    IF rich_text = <<>> THEN <<>>
    ELSE (IF heading THEN HeadingSpan(Head(rich_text))
          ELSE ParagraphSpan(Head(rich_text)))
         \o SpansText(Tail(rich_text), heading)

\* Mutant: any block that has rich_text is read like a paragraph.
BlockText_AnyRichText(block) ==
    IF block.type \in {"heading_1", "heading_2", "heading_3"}
    THEN SpansText(block.rich_text, TRUE)
    ELSE SpansText(block.rich_text, FALSE)

\* What one block adds to content: the dispatch of lines 63-75.
BlockText(block) ==
    IF block.type = "paragraph" THEN SpansText(block.rich_text, FALSE)
    ELSE IF block.type \in {"heading_1", "heading_2", "heading_3"}
         THEN SpansText(block.rich_text, TRUE)
    ELSE <<>>

\* blocks.forEach(...) of lines 61-77.
RECURSIVE ExtractText(_)
ExtractText(bs) ==
    IF bs = <<>> THEN <<>> ELSE BlockText(Head(bs)) \o ExtractText(Tail(bs))

\* rich_text.map(rt => rt.plain_text).join('') of part_000 line 284.
RECURSIVE JoinSpans(_)
JoinSpans(rich_text) ==
    IF rich_text = <<>> THEN <<>>
    ELSE (IF Head(rich_text) = Undefined THEN <<>> ELSE Head(rich_text))
         \o JoinSpans(Tail(rich_text))

\* extractTextFromBlocks of part_000 (lines 280-296), which the
\* fetchNotionPageContent of that file applies to the same accumulated blocks.
RECURSIVE ExtractTextFromBlocks(_)
ExtractTextFromBlocks(bs) ==
    IF bs = <<>> THEN <<>>
    ELSE (IF Head(bs).type = "paragraph" /\ Len(Head(bs).rich_text) > 0
          THEN JoinSpans(Head(bs).rich_text) \o <<"\n">>
          ELSE <<>>)
         \o ExtractTextFromBlocks(Tail(bs))

\* Mutant: every list call asks for the first page.
ListCall_NoCursor(pageId, start_cursor) ==
    [op |-> "list", block_id |-> pageId, start_cursor |-> Undefined,
     page_size |-> PageSize]

ListCall(pageId, start_cursor) ==
    [op |-> "list", block_id |-> pageId, start_cursor |-> start_cursor,
     page_size |-> PageSize]

\* Mutant: each page of results overwrites the accumulator.
Accumulate_Replaced(bs, results) == results

\* blocks.push(...results), line 57.
Accumulate(bs, results) == bs \o results

\* fetchNotionPageContent up to its first await: lines 44-56.
FetchStart(s, notionClient) ==
    LET s1 == [s EXCEPT !.nExtract = @ + 1] IN
    IF ~Truthy(notionClient)
    THEN HandlerCatch(s1, <<"Notion client is not initialized. Check NOTION_API_KEY.">>)
    ELSE IssueCall([s1 EXCEPT !.blocks = <<>>, !.cursor = Undefined],
                   ListCall(s1.req.notionPageId, Undefined), "awaitList")

\* Mutant: the emptiness test without the trim.
EmptyContent_NoTrim(text) == ~Truthy(text)

\* `!contentToProcess || contentToProcess.trim() === ''` of line 144.
EmptyContent(text) == IsBlank(text)

\* Mutant: the loop gives up after its first page.
LoopContinues_Capped(s) ==
    Truthy(s.cursor) /\ Len(SelectSeq(s.calls, LAMBDA c : c.op = "list")) < 1

\* `while (cursor)`, line 59.
LoopContinues(s) == Truthy(s.cursor)

\* A list call returns: the rest of the loop (57-59), the flattening (61-78)
\* or the catch (79-82), then the handler's lines 143-177.
OnListReply(s, reply) ==
    IF ~reply.ok
    THEN HandlerCatch(s, <<"Failed to fetch content from Notion page: ">> \o reply.message)
    ELSE LET s1 == [s EXCEPT !.blocks = Accumulate(@, reply.results),
                             !.cursor = reply.next_cursor] IN
         IF LoopContinues(s1)
         THEN IssueCall(s1, ListCall(s1.req.notionPageId, s1.cursor), "awaitList")
         ELSE LET s2 == [s1 EXCEPT !.contentToProcess = ExtractText(s1.blocks)] IN
              IF EmptyContent(s2.contentToProcess)
              THEN Respond(s2, 400,
                     [error |-> <<"No readable content found on the specified Notion page to process.">>])
              ELSE BuildPromptAndGenerate(s2)

\* ------------------------------------------------------------------ append

\* Mutant: the text is cut before it is appended.
AppendChildren_Truncated(content) ==
    << [object |-> "block", type |-> "paragraph",
        paragraph |-> [rich_text |->
            << [type |-> "text", text |-> [content |-> SubSeq(content, 1, Min(Len(content), 2))]] >>]] >>

\* The children of the append call: lines 97-112.
AppendChildren(content) ==
    << [object |-> "block", type |-> "paragraph",
        paragraph |-> [rich_text |-> << [type |-> "text", text |-> [content |-> content]] >>]] >>

AppendCall(pageId, content) ==
    [op |-> "append", block_id |-> pageId, children |-> AppendChildren(content)]

\* appendContentToNotion up to its await: lines 90-95.
AppendStart(s, notionClient) ==
    IF ~Truthy(notionClient)
    THEN HandlerCatch(s, <<"Notion client is not initialized. Check NOTION_API_KEY.">>)
    ELSE IssueCall(s, AppendCall(s.req.notionPageId, s.geminiResponse), "awaitAppend")

\* Mutant: a generator failure is swallowed and the handler goes on to append.
OnGenerateReply_Swallowed(s, reply, notionClient) ==
    AppendStart([s EXCEPT !.geminiResponse = IF reply.ok THEN reply.text ELSE <<>>],
                notionClient)

\* Mutant: the page is read once more after the generator has answered.
OnGenerateReply_ListFirst(s, reply, notionClient) ==
    IF ~reply.ok
    THEN HandlerCatch(s, reply.message)
    ELSE FetchStart([s EXCEPT !.geminiResponse = reply.text], notionClient)

\* The generator returns: lines 177-183.
OnGenerateReply(s, reply, notionClient) ==
    IF ~reply.ok
    THEN HandlerCatch(s, reply.message)
    ELSE AppendStart([s EXCEPT !.geminiResponse = reply.text], notionClient)

\* Mutant: a failed append is issued once more.
OnAppendReply_Retry(s, reply) ==
    IF ~reply.ok
    THEN IF Len(SelectSeq(s.calls, LAMBDA c : c.op = "append")) < 2
         THEN IssueCall(s, s.calls[Len(s.calls)], "awaitAppend")
         ELSE HandlerCatch(s, <<"Failed to append content to Notion: ">> \o reply.message)
    ELSE Respond(s, 200, [message |-> <<"Content processed and appended to Notion.">>,
                          geminiResponse |-> s.geminiResponse])

\* Mutant: the append's error reaches the catch as the service threw it.
OnAppendReply_Unwrapped(s, reply) ==
    IF ~reply.ok
    THEN HandlerCatch(s, reply.message)
    ELSE Respond(s, 200, [message |-> <<"Content processed and appended to Notion.">>,
                          geminiResponse |-> s.geminiResponse])

\* The append returns: lines 113-118 and 185.
OnAppendReply(s, reply) ==
    IF ~reply.ok
    THEN HandlerCatch(s, <<"Failed to append content to Notion: ">> \o reply.message)
    ELSE Respond(s, 200, [message |-> <<"Content processed and appended to Notion.">>,
                          geminiResponse |-> s.geminiResponse])

\* ------------------------------------------------------------- the handler

\* Mutant: the page is always read, whatever the request's content.
NeedsFetch_Always(content) == TRUE

\* `!contentToProcess || contentToProcess.trim() === ''`, line 141.
NeedsFetch(content) == IsBlank(content)

\* Mutant: the configuration checks come before the pageId check.
EarlyResponse_ConfigFirst(body, notionClient, generativeModel) ==
    IF ~Truthy(generativeModel)
    THEN [reject |-> TRUE, status |-> 500,
          body |-> [error |-> <<"Gemini model not initialized. Check GEMINI_API_KEY.">>]]
    ELSE IF ~Truthy(notionClient)
    THEN [reject |-> TRUE, status |-> 500,
          body |-> [error |-> <<"Notion client not initialized. Check NOTION_API_KEY.">>]]
    ELSE IF ~Truthy(body.notionPageId)
    THEN [reject |-> TRUE, status |-> 400,
          body |-> [error |-> <<"Notion Page ID is required.">>]]
    ELSE [reject |-> FALSE]

\* Mutant: the handler leaves the store client's check to the two helpers.
EarlyResponse_NoNotionCheck(body, notionClient, generativeModel) ==
    IF ~Truthy(body.notionPageId)
    THEN [reject |-> TRUE, status |-> 400,
          body |-> [error |-> <<"Notion Page ID is required.">>]]
    ELSE IF ~Truthy(generativeModel)
    THEN [reject |-> TRUE, status |-> 500,
          body |-> [error |-> <<"Gemini model not initialized. Check GEMINI_API_KEY.">>]]
    ELSE [reject |-> FALSE]

\* Lines 126-135: the response of a request rejected before the try block, or
\* [reject |-> FALSE] for a request that enters it.
EarlyResponse(body, notionClient, generativeModel) ==
    IF ~Truthy(body.notionPageId)
    THEN [reject |-> TRUE, status |-> 400,
          body |-> [error |-> <<"Notion Page ID is required.">>]]
    ELSE IF ~Truthy(generativeModel)
    THEN [reject |-> TRUE, status |-> 500,
          body |-> [error |-> <<"Gemini model not initialized. Check GEMINI_API_KEY.">>]]
    ELSE IF ~Truthy(notionClient)
    THEN [reject |-> TRUE, status |-> 500,
          body |-> [error |-> <<"Notion client not initialized. Check NOTION_API_KEY.">>]]
    ELSE [reject |-> FALSE]

\* Lines 122-148, up to the first await or response.
HandlerStart(s, body, notionClient, generativeModel) ==
    LET s0 == [s EXCEPT !.req = body]
        early == EarlyResponse(body, notionClient, generativeModel)
    IN
    IF early.reject
    THEN Respond(s0, early.status, early.body)
    ELSE LET s1 == [s0 EXCEPT !.contentToProcess = body.content] IN
         IF NeedsFetch(s1.contentToProcess)
         THEN FetchStart(s1, notionClient)
         ELSE BuildPromptAndGenerate(s1)

\* ------------------------------------------------------ the document store

Token(p) == <<"<cursor>", ToString(p)>>
PosOf(page, start_cursor) ==
    IF start_cursor = Undefined THEN 0
    ELSE CHOOSE p \in 0..Len(page) : Token(p) = start_cursor

\* blocks.children.list: a failure, or the next run of the page's blocks, cut
\* wherever the store likes (at most page_size), with the token of the rest;
\* after the last block next_cursor is null or absent.
ListReplies(st, call) ==
    LET page == st[call.block_id[1]]
        p == PosOf(page, call.start_cursor)
        rest == Len(page) - p
        sizes == IF rest = 0 THEN {0} ELSE 1..Min(rest, call.page_size)
        ends(k) == IF p + k = Len(page) THEN {Null, Undefined} ELSE {Token(p + k)}
    IN {[op |-> "list", ok |-> FALSE, message |-> m] : m \in Causes}
       \cup UNION {{[op |-> "list", ok |-> TRUE,
                     results |-> SubSeq(page, p + 1, p + k),
                     next_cursor |-> c] : c \in ends(k)} : k \in sizes}

GenerateReplies ==
    {[op |-> "generate", ok |-> FALSE, message |-> m] : m \in Causes}
    \cup {[op |-> "generate", ok |-> TRUE, text |-> t] : t \in GenTexts}

AppendReplies ==
    {[op |-> "append", ok |-> FALSE, message |-> m] : m \in Causes}
    \cup {[op |-> "append", ok |-> TRUE]}

\* The block the store keeps for an appended child.
StoredBlock(child) ==
    [type |-> child.type,
     rich_text |-> << child.paragraph.rich_text[1].text.content >>]

\* blocks.children.append on the store's side.
StoreAppend(st, call) ==
    [st EXCEPT ![call.block_id[1]] =
        @ \o [i \in 1..Len(call.children) |-> StoredBlock(call.children[i])]]

Last(q) == q[Len(q)]

\* ----------------------------------------------------------------- actions

StoreInits ==
    {st \in [PageIds -> SeqsUpTo(BlockSet, MaxBlocks)] :
        Len(st["P1"]) + Len(st["P2"]) <= MaxBlocks}

\* The module-level initialisation: each key is set or not.
InitHandles ==
    /\ \E nk \in BOOLEAN : notion = InitNotion(nk)
    /\ \E gk \in BOOLEAN : model = InitModel(gk)

\* No request of R has arrived yet.
InitLocals(R) ==
    /\ pc = [r \in R |-> "idle"]
    /\ req = [r \in R |-> NoBody]
    /\ contentToProcess = [r \in R |-> Undefined]
    /\ prompt = [r \in R |-> Undefined]
    /\ geminiResponse = [r \in R |-> Undefined]
    /\ sourceContent = [r \in R |-> Undefined]
    /\ generatedContent = [r \in R |-> Undefined]
    /\ blocks = [r \in R |-> <<>>]
    /\ cursor = [r \in R |-> Undefined]
    /\ nExtract = [r \in R |-> 0]
    /\ pageAtStart = [r \in R |-> <<>>]
    /\ calls = [r \in R |-> <<>>]
    /\ replies = [r \in R |-> <<>>]
    /\ responses = [r \in R |-> <<>>]

Init ==
    /\ InitHandles
    /\ store \in StoreInits
    /\ InitLocals({"r1"})

\* History: when the handler has just begun to read its page, note what the
\* page holds at that moment.
MarkStart(s, st) ==
    IF s.pc = "awaitList"
    THEN [s EXCEPT !.pageAtStart = st[s.req.notionPageId[1]]]
    ELSE s

\* A request arrives and the handler runs to its first await or response.
Receive(r) ==
    /\ pc[r] = "idle"
    /\ \E body \in Bodies :
          Commit(r, MarkStart(HandlerStart(Local(r), body, notion, model), store))
    /\ UNCHANGED <<notion, model, store>>

ListReply(r) ==
    /\ pc[r] = "awaitList"
    /\ \E reply \in ListReplies(store, Last(calls[r])) :
          Commit(r, OnListReply(Resume(Local(r), reply), reply))
    /\ UNCHANGED <<notion, model, store>>

GenerateReply(r) ==
    /\ pc[r] = "awaitGenerate"
    /\ \E reply \in GenerateReplies :
          Commit(r, OnGenerateReply(Resume(Local(r), reply), reply, notion))
    /\ UNCHANGED <<notion, model, store>>

AppendReply(r) ==
    /\ pc[r] = "awaitAppend"
    /\ \E reply \in AppendReplies :
          /\ Commit(r, OnAppendReply(Resume(Local(r), reply), reply))
          /\ store' = IF reply.ok THEN StoreAppend(store, Last(calls[r])) ELSE store
    /\ UNCHANGED <<notion, model>>

Next ==
    \E r \in Reqs :
        \/ Receive(r)
        \/ ListReply(r)
        \/ GenerateReply(r)
        \/ AppendReply(r)

Spec == Init /\ [][Next]_vars

\* ------------------------------------- the capped variant (part_000 28-185)

\* The cap of sourceContent.substring(0, 15000).
ContentCap == 15000

\* Mutant: the text is passed on whole.
Substring0_Uncapped(s, n) == s

\* s.substring(0, n)
Substring0(s, n) == SubSeq(s, 1, Min(Len(s), n))

StartsWith(s, prefix) ==
    Len(s) >= Len(prefix) /\ SubSeq(s, 1, Len(prefix)) = prefix

\* Line 56: content is a URL.
IsUrl(content) ==
    /\ Truthy(content)
    /\ \/ StartsWith(content, <<"h", "t", "t", "p", ":", "/", "/">>)
       \/ StartsWith(content, <<"h", "t", "t", "p", "s", ":", "/", "/">>)

\* A text one character longer than the cap, with its first and its last
\* character unlike the rest.
LongText ==
    [i \in 1..(ContentCap + 1) |->
        IF i = 1 THEN "p" ELSE IF i = ContentCap + 1 THEN "z" ELSE "y"]

CappedContentInputs ==
    {Undefined, <<>>, <<" ">>, <<"x">>, <<" ", "x">>,
     <<"h", "t", "t", "p", ":", "/", "/", "u">>, LongText}
CappedActionInputs ==
    {Undefined, <<"summarize">>, <<"notes">>, <<"quiz">>, <<"ask_question">>,
     <<"brainstorm">>, <<"rephrase">>, <<"bogus">>}
CappedBodies ==
    [content : CappedContentInputs, action : CappedActionInputs,
     notionPageId : PageIdInputs]

\* Texts the proxy can answer a URL fetch with.
FetchTexts == {<<"w">>, <<" ">>, <<"h", "t", "t", "p", ":", "/", "/", "u">>}

\* The cases of the switch of lines 84-117.
CappedActions ==
    {<<"summarize">>, <<"notes">>, <<"quiz">>, <<"ask_question">>, <<"brainstorm">>,
     <<"rephrase">>}

TemplateRule == <<"\n                ---\n                ">>

AskPrefix == <<"Based on the following text, answer the question: \"">>
AskSuffix ==
    <<"\". If the answer is not in the provided content, state that. Format using Notion-compatible markdown.">>

\* Mutant: the question is taken from the text that goes to the generator.
AskQuestionPrompt_SourceAsQuestion(content, contentForLLM) ==
    AskPrefix \o contentForLLM \o AskSuffix \o TemplateRule \o contentForLLM

\* The template of the ask_question case, lines 100-107: the question is the
\* request's content field.
AskQuestionPrompt(content, contentForLLM) ==
    AskPrefix \o content \o AskSuffix \o TemplateRule \o contentForLLM

\* The switch of lines 84-120 for the actions whose template evaluates; the
\* default branch serves every other action.
CappedPromptFor(action, content, contentForLLM) ==
    CASE action = <<"summarize">> ->
           <<"Provide a concise, high-level summary of the main points and key takeaways from the following text. Keep it to 3-5 bullet points or a short paragraph. Format using Notion-compatible markdown.">>
           \o TemplateRule \o contentForLLM
      [] action = <<"notes">> ->
           <<"Extract the most important facts, key concepts, and structured notes from the following text. Present them clearly using Notion-compatible markdown-formatted bulleted or numbered lists.">>
           \o TemplateRule \o contentForLLM
      [] action = <<"quiz">> ->
           <<"Generate one challenging multiple-choice question with 4 options (A, B, C, D) and clearly indicate the correct answer at the end (e.g., \"Correct Answer: B\") based on the following text. Format using Notion-compatible markdown.">>
           \o TemplateRule \o contentForLLM
      [] action = <<"ask_question">> -> AskQuestionPrompt(content, contentForLLM)
      [] action = <<"brainstorm">> ->
           <<"Based on the following text, brainstorm 3-5 creative ideas, applications, or related concepts. Present them as a Notion-compatible markdown bulleted list.">>
           \o TemplateRule \o contentForLLM
      [] OTHER ->
           <<"Analyze the following text and provide a general overview. Format using Notion-compatible markdown: ">>
           \o contentForLLM

\* The catch of lines 181-184.
CappedCatch(s, message) ==
    Respond(s, 500,
        [error |-> <<"An unexpected error occurred during AI processing or Notion interaction.">>,
         details |-> message])

\* Lines 79-123: cap the text, build the prompt and call the generator. The
\* template of the rephrase case names the undeclared contentForLLLLM
\* (line 116), so evaluating it throws a ReferenceError.
CappedBuildPromptAndGenerate(s) ==
    LET contentForLLM == Substring0(s.sourceContent, ContentCap) IN
    IF s.req.action = <<"rephrase">>
    THEN CappedCatch(s, <<"contentForLLLLM is not defined">>)
    ELSE LET p == CappedPromptFor(s.req.action, s.req.content, contentForLLM) IN
         IssueCall([s EXCEPT !.prompt = p], GenerateCall(p), "awaitGenerate")

\* Lines 75-77, then the prompt.
CappedAfterSource(s) ==
    IF IsBlank(s.sourceContent)
    THEN Respond(s, 400, [error |-> <<"No content provided for AI processing.">>])
    ELSE CappedBuildPromptAndGenerate(s)

\* encodeURIComponent on the characters of the inputs.
EncodeURIComponent(s) ==
    [i \in 1..Len(s) |->
        CASE s[i] = ":" -> "%3A"
          [] s[i] = "/" -> "%2F"
          [] s[i] = " " -> "%20"
          [] OTHER -> s[i]]

FetchCall(content) ==
    [op |-> "fetch",
     url |-> <<"https://api.allorigins.win/raw?url=">> \o EncodeURIComponent(content)]

\* Lines 28-63, up to the first await or response; the handler reads the two
\* keys itself.
CappedStart(s, body, notionKey, geminiKey) ==
    LET s0 == [s EXCEPT !.req = body] IN
    IF ~Truthy(notionKey) \/ ~Truthy(geminiKey)
    THEN Respond(s0, 500, [error |-> <<"Server API keys are not configured properly.">>])
    ELSE LET s1 == [s0 EXCEPT !.sourceContent = body.content] IN
         IF IsUrl(body.content)
         THEN IssueCall(s1, FetchCall(body.content), "awaitFetch")
         ELSE CappedAfterSource(s1)

\* The proxy answers: lines 63-77.
OnFetchReply(s, reply) ==
    IF ~reply.ok
    THEN Respond(s, 400,
            [error |-> <<"Could not fetch content from URL: ">> \o s.req.content \o <<".">>,
             details |-> reply.message])
    ELSE CappedAfterSource([s EXCEPT !.sourceContent = reply.text])

\* action.replace(/_/g, ' ') on the action names of the inputs.
ReplaceUnderscores(action) ==
    IF action = <<"ask_question">> THEN <<"ask question">> ELSE action

\* notionBlocks of lines 135-166: a header paragraph and a code block.
NotionBlocks(action, generated) ==
    << [object |-> "block", type |-> "paragraph",
        paragraph |-> [rich_text |->
            << [text |-> [content |-> <<"**AI Output (">> \o ReplaceUnderscores(action)
                                        \o <<"):**\n\n">>],
                annotations |-> [bold |-> TRUE]] >>]],
       [object |-> "block", type |-> "code",
        code |-> [rich_text |-> << [text |-> [content |-> generated]] >>,
                  language |-> "markdown"]] >>

\* The generator returns: lines 123-179. Without a pageId the text is
\* returned directly; with one, building the header of a request that has no
\* action throws a TypeError.
CappedOnGenerateReply(s, reply) ==
    IF ~reply.ok
    THEN CappedCatch(s, reply.message)
    ELSE LET s1 == [s EXCEPT !.generatedContent = reply.text] IN
         IF ~Truthy(s1.req.notionPageId)
         THEN Respond(s1, 200, [success |-> <<"true">>,
                                message |-> <<"Content processed!">>,
                                output |-> s1.generatedContent])
         ELSE IF s1.req.action = Undefined
         THEN CappedCatch(s1, <<"Cannot read properties of undefined (reading 'replace')">>)
         ELSE IssueCall(s1,
                [op |-> "append", block_id |-> s1.req.notionPageId,
                 children |-> NotionBlocks(s1.req.action, s1.generatedContent)],
                "awaitAppend")

\* The append returns: lines 168-173.
CappedOnAppendReply(s, reply) ==
    IF ~reply.ok
    THEN CappedCatch(s, reply.message)
    ELSE Respond(s, 200, [success |-> <<"true">>,
                          message |-> <<"Content processed and added to Notion!">>,
                          output |-> s.generatedContent])

\* fetch(proxyUrl): a network failure, a response that is not ok, or the text.
FetchReplies ==
    {[op |-> "fetch", ok |-> FALSE, message |-> m]
        : m \in Causes \cup {<<"HTTP error! status: ", "404">>}}
    \cup {[op |-> "fetch", ok |-> TRUE, text |-> x] : x \in FetchTexts}

\* The block the store keeps for a child of the capped variant's append.
CappedStoredBlock(child) ==
    [type |-> child.type,
     rich_text |-> << IF child.type = "code"
                      THEN child.code.rich_text[1].text.content
                      ELSE child.paragraph.rich_text[1].text.content >>]

CappedStoreAppend(st, call) ==
    [st EXCEPT ![call.block_id[1]] =
        @ \o [i \in 1..Len(call.children) |-> CappedStoredBlock(call.children[i])]]

InitCapped ==
    /\ InitHandles
    /\ store = [p \in PageIds |-> <<>>]
    /\ InitLocals({"r1"})

CappedReceive(r) ==
    /\ pc[r] = "idle"
    /\ \E body \in CappedBodies : Commit(r, CappedStart(Local(r), body, notion, model))
    /\ UNCHANGED <<notion, model, store>>

FetchReply(r) ==
    /\ pc[r] = "awaitFetch"
    /\ \E reply \in FetchReplies : Commit(r, OnFetchReply(Resume(Local(r), reply), reply))
    /\ UNCHANGED <<notion, model, store>>

CappedGenerateReply(r) ==
    /\ pc[r] = "awaitGenerate"
    /\ \E reply \in GenerateReplies :
          Commit(r, CappedOnGenerateReply(Resume(Local(r), reply), reply))
    /\ UNCHANGED <<notion, model, store>>

CappedAppendReply(r) ==
    /\ pc[r] = "awaitAppend"
    /\ \E reply \in AppendReplies :
          /\ Commit(r, CappedOnAppendReply(Resume(Local(r), reply), reply))
          /\ store' = IF reply.ok THEN CappedStoreAppend(store, Last(calls[r])) ELSE store
    /\ UNCHANGED <<notion, model>>

NextCapped ==
    \E r \in Reqs :
        \/ CappedReceive(r)
        \/ FetchReply(r)
        \/ CappedGenerateReply(r)
        \/ CappedAppendReply(r)

SpecCapped == InitCapped /\ [][NextCapped]_vars

\* ------------------------------------- two requests in flight (server.js)

\* Requests that reach every suspension point of the handler, and one that is
\* turned away after its page was read.
ConcBodies ==
    [content : {Undefined, <<"x">>}, action : {<<"summarize">>, <<"bogus">>},
     notionPageId : {<<"P1">>}]

ConcBlockSet ==
    {[type |-> "paragraph", rich_text |-> << <<"a">>, <<"b">> >>],
     [type |-> "to_do", rich_text |-> << <<"t">> >>]}

ConcStoreInits ==
    {st \in [PageIds -> SeqsUpTo(ConcBlockSet, MaxBlocks)] : st["P2"] = <<>>}

InitConc ==
    /\ InitHandles
    /\ store \in ConcStoreInits
    /\ InitLocals({"r1", "r2"})

ConcReceive(r) ==
    /\ pc[r] = "idle"
    /\ \E body \in ConcBodies :
          Commit(r, MarkStart(HandlerStart(Local(r), body, notion, model), store))
    /\ UNCHANGED <<notion, model, store>>

\* The event loop runs one handler step at a time, of either request.
NextConc ==
    \E r \in Reqs :
        \/ ConcReceive(r)
        \/ ListReply(r)
        \/ GenerateReply(r)
        \/ AppendReply(r)

SpecConc == InitConc /\ [][NextConc]_vars

\* ----------------------------------------------- what the claims speak of

CallsOf(r, op) == SelectSeq(calls[r], LAMBDA c : c.op = op)
Failed(r, op) == \E i \in DOMAIN replies[r] : replies[r][i].op = op /\ ~replies[r][i].ok
Succeeded(r, op) == \E i \in DOMAIN replies[r] : replies[r][i].op = op /\ replies[r][i].ok

\* The request has been answered, once, with this status.
Responded(r, status) ==
    pc[r] = "done" /\ Len(responses[r]) = 1 /\ responses[r][1].status = status

\* The text the generator produced for the request.
GeneratedText(r) ==
    LET i == CHOOSE i \in DOMAIN replies[r] :
                 replies[r][i].op = "generate" /\ replies[r][i].ok
    IN replies[r][i].text

\* fetchNotionPageContent has returned: a list reply ended the cursor chain.
ExtractionReturned(r) ==
    \E i \in DOMAIN replies[r] :
        /\ replies[r][i].op = "list"
        /\ replies[r][i].ok
        /\ ~Truthy(replies[r][i].next_cursor)

BodyContains(body, text) == \E f \in DOMAIN body : Contains(body[f], text)

Configured == Truthy(notion) /\ Truthy(model)

\* The request's content is a string that is non-empty after trimming.
HasContent(r) ==
    /\ req[r].content \notin {Undefined, Null}
    /\ Trim(req[r].content) /= <<>>

\* ------------------------------------------------------------------ claims

\* C1: whenever the generator call of a request has failed, no append call
\* was issued for that request and the request has been answered with 500.
C1_GeneratorFailureNoAppend ==
    \A r \in Reqs :
        Failed(r, "generate") =>
            /\ CallsOf(r, "append") = <<>>
            /\ Responded(r, 500)

C1_Witness ==
    \E r \in Reqs : Failed(r, "generate") /\ pc[r] = "done"

\* C2: when generation succeeded and the append failed, the response body
\* contains the generated text.
C2_AppendFailureKeepsText ==
    \A r \in Reqs :
        (Succeeded(r, "generate") /\ Failed(r, "append")) =>
            /\ pc[r] = "done"
            /\ BodyContains(responses[r][1].body, GeneratedText(r))

\* C3: once the cursor chain has ended, the extracted text is the flattening
\* of the page's whole block sequence, however the store cut it into pages;
\* so is the text the extractor of part_000 makes of the accumulated blocks.
C3_ExtractionIndependentOfPaging ==
    \A r \in Reqs :
        (ExtractionReturned(r) /\ ~Succeeded(r, "append")) =>
            LET page == store[req[r].notionPageId[1]] IN
            /\ contentToProcess[r] = ExtractText(page)
            /\ ExtractTextFromBlocks(blocks[r]) = ExtractTextFromBlocks(page)

C3_Witness ==
    \E r \in Reqs :
        /\ ExtractionReturned(r)
        /\ Len(CallsOf(r, "list")) = 2
        /\ contentToProcess[r] = <<"a", "\n", "b", "\n", "h", "\n">>
        /\ ExtractTextFromBlocks(blocks[r]) = <<"a", "b", "\n">>

\* C4: a request whose content is a non-blank string never issues a list
\* call and never enters the extractor; the only store call it can make is
\* the append, which is its last call.
C4_ContentGivenNoListCall ==
    \A r \in Reqs :
        HasContent(r) =>
            /\ CallsOf(r, "list") = <<>>
            /\ nExtract[r] = 0
            /\ \A i \in DOMAIN calls[r] :
                  calls[r][i].op = "append" => i = Len(calls[r])

C4_Witness ==
    \E r \in Reqs :
        /\ HasContent(r)
        /\ req[r].content /= Trim(req[r].content)
        /\ Responded(r, 200)
        /\ Len(CallsOf(r, "append")) = 1

\* C5: blank content and a blank extracted text end the request with the
\* 400 of EmptyContent, with no generator call and no append call.
C5_EmptyContentStops ==
    \A r \in Reqs :
        (IsBlank(req[r].content) /\ ExtractionReturned(r) /\ IsBlank(contentToProcess[r])) =>
            /\ Responded(r, 400)
            /\ responses[r][1].body =
                 [error |-> <<"No readable content found on the specified Notion page to process.">>]
            /\ CallsOf(r, "generate") = <<>>
            /\ CallsOf(r, "append") = <<>>

C5_Witness ==
    \E r \in Reqs :
        /\ ExtractionReturned(r)
        /\ contentToProcess[r] /= <<>>
        /\ IsBlank(contentToProcess[r])
        /\ pc[r] = "done"

\* C6: with both services configured, a request that has a pageId and an
\* action outside the accepted set is answered 400 without any downstream
\* call, whether or not it supplies content.
C6_InvalidActionNoDownstreamCall ==
    \A r \in Reqs :
        (Configured /\ Truthy(req[r].notionPageId) /\ req[r].action \notin ValidActions) =>
            /\ calls[r] = <<>>
            /\ Responded(r, 400)

\* C7: a request without a pageId is answered 400 at once, with no call and
\* no extraction, whatever its other fields and whatever is configured.
C7_MissingPageIdRejectedFirst ==
    \A r \in Reqs :
        (pc[r] /= "idle" /\ ~Truthy(req[r].notionPageId)) =>
            /\ Responded(r, 400)
            /\ responses[r][1].body = [error |-> <<"Notion Page ID is required.">>]
            /\ calls[r] = <<>>
            /\ nExtract[r] = 0

C7_Witness ==
    \E r \in Reqs :
        /\ pc[r] = "done"
        /\ ~Truthy(req[r].notionPageId)
        /\ ~Configured
        /\ HasContent(r)
        /\ req[r].action \in ValidActions

\* C8: with a handle missing, a request that has a pageId is answered with
\* the 500 of the configuration error, and no call is issued.
C8_MissingTokenFailsFast ==
    \A r \in Reqs :
        (pc[r] /= "idle" /\ Truthy(req[r].notionPageId) /\ ~Configured) =>
            /\ Responded(r, 500)
            /\ responses[r][1].body \in
                 {[error |-> <<"Gemini model not initialized. Check GEMINI_API_KEY.">>],
                  [error |-> <<"Notion client not initialized. Check NOTION_API_KEY.">>]}
            /\ calls[r] = <<>>
            /\ nExtract[r] = 0

C8_Witness ==
    \E r \in Reqs :
        /\ pc[r] = "done"
        /\ Truthy(req[r].notionPageId)
        /\ ~Truthy(notion)
        /\ Truthy(model)
        /\ HasContent(r)
        /\ req[r].action \in ValidActions

\* C9: a request enters the extractor, calls the generator and calls append
\* at most once each, and issues no call after a reply that failed.
C9_AtMostOnceNoRetry ==
    \A r \in Reqs :
        /\ nExtract[r] <= 1
        /\ Len(CallsOf(r, "generate")) <= 1
        /\ Len(CallsOf(r, "append")) <= 1
        /\ \A i \in DOMAIN replies[r] :
              ~replies[r][i].ok => (Len(calls[r]) = i /\ pc[r] = "done")

C9_Witness ==
    \E r \in Reqs :
        /\ nExtract[r] = 1
        /\ Len(CallsOf(r, "generate")) = 1
        /\ Len(CallsOf(r, "append")) = 1
        /\ Failed(r, "append")
        /\ pc[r] = "done"

\* C10: a 200 response follows exactly one successful generator call and then
\* exactly one append call, to the request's pageId, with the generated text
\* unmodified in one block, and the response carries that text.
C10_SuccessMeansGeneratedAndAppended ==
    \A r \in Reqs :
        Responded(r, 200) =>
            LET n == Len(calls[r]) IN
            /\ Len(CallsOf(r, "generate")) = 1
            /\ Len(CallsOf(r, "append")) = 1
            /\ Succeeded(r, "generate")
            /\ n >= 2
            /\ calls[r][n - 1].op = "generate"
            /\ calls[r][n].op = "append"
            /\ calls[r][n].block_id = req[r].notionPageId
            /\ Len(calls[r][n].children) = 1
            /\ calls[r][n].children[1].paragraph.rich_text
                 = << [type |-> "text", text |-> [content |-> GeneratedText(r)]] >>
            /\ responses[r][1].body.geminiResponse = GeneratedText(r)

C10_Witness ==
    \E r \in Reqs :
        /\ Responded(r, 200)
        /\ Len(GeneratedText(r)) = 3
        /\ nExtract[r] = 1
        /\ req[r].notionPageId = <<"P2">>

\* The message of the failed reply that ended the request.
FailureCause(r) == replies[r][Len(replies[r])].message

\* C11: when a list call fails, on the first page or a later one, the request
\* keeps no partial text, makes no generator or append call, and is answered
\* 500 with one error that carries the page identifier and the cause message.
C11_ListFailureWrappedWithPageId ==
    \A r \in Reqs :
        Failed(r, "list") =>
            /\ Responded(r, 500)
            /\ contentToProcess[r] = req[r].content
            /\ CallsOf(r, "generate") = <<>>
            /\ CallsOf(r, "append") = <<>>
            /\ Contains(responses[r][1].body.error, FailureCause(r))
            /\ Contains(responses[r][1].body.error, req[r].notionPageId)

RecognizedTypes == {"paragraph", "heading_1", "heading_2", "heading_3"}
Recognized(bs) == SelectSeq(bs, LAMBDA b : b.type \in RecognizedTypes)

FetchFailurePrefix == <<"Failed to fetch content from Notion page: ">>

\* The error message of the request's response; empty when it has none.
ErrorOf(r) ==
    IF responses[r] /= <<>> /\ "error" \in DOMAIN responses[r][1].body
    THEN responses[r][1].body.error
    ELSE <<>>

\* C12: the extracted text is that of the page with every block of another
\* type removed, and a request whose list calls all succeeded is never
\* answered with the extraction failure.
C12_UnrecognizedBlocksSkipped ==
    \A r \in Reqs :
        /\ (ExtractionReturned(r) /\ ~Succeeded(r, "append")) =>
              contentToProcess[r] = ExtractText(Recognized(store[req[r].notionPageId[1]]))
        /\ ExtractionReturned(r) =>
              ~(pc[r] = "done" /\ Contains(ErrorOf(r), FetchFailurePrefix))

C12_Witness ==
    \E r \in Reqs :
        /\ ExtractionReturned(r)
        /\ \E i \in DOMAIN blocks[r] : blocks[r][i].type = "to_do"
        /\ contentToProcess[r] = <<"h", "\n">>

\* The blocks of the successful list replies, in the order they were received.
RECURSIVE RetrievedBlocks(_)
RetrievedBlocks(reps) ==
    IF reps = <<>> THEN <<>>
    ELSE (IF Head(reps).op = "list" /\ Head(reps).ok THEN Head(reps).results ELSE <<>>)
         \o RetrievedBlocks(Tail(reps))

\* Every external call is eventually answered or fails.
Fairness ==
    \A r \in {"r1", "r2"} :
        /\ WF_vars(r \in Reqs /\ ListReply(r))
        /\ WF_vars(r \in Reqs /\ GenerateReply(r))
        /\ WF_vars(r \in Reqs /\ AppendReply(r))

\* The run whose progress is checked: the blocks are all on the first page,
\* the second page is empty.
InitFair ==
    /\ InitHandles
    /\ store \in {st \in StoreInits : st["P2"] = <<>>}
    /\ InitLocals({"r1"})

FairSpec == InitFair /\ [][Next]_vars /\ Fairness

\* After each successful list reply the loop goes on exactly when the reply
\* brought a continuation token, and the accumulator holds every block
\* retrieved so far, in order.
LoopFollowsTheChain ==
    \A r \in Reqs :
        /\ \A i \in DOMAIN replies[r] :
              (replies[r][i].op = "list" /\ replies[r][i].ok) =>
                  IF Truthy(replies[r][i].next_cursor)
                  THEN Len(CallsOf(r, "list")) > i
                  ELSE Len(CallsOf(r, "list")) = i
        /\ nExtract[r] = 1 => blocks[r] = RetrievedBlocks(replies[r])

\* C13: the pagination loop follows the chain to its end, however many pages
\* it has, and then stops: a request waiting for a list reply eventually
\* stops waiting for one.
C13_PaginationTerminates ==
    /\ []LoopFollowsTheChain
    /\ \A r \in {"r1"} : (pc[r] = "awaitList") ~> (pc[r] /= "awaitList")

C13_Witness ==
    \E r \in Reqs :
        /\ ExtractionReturned(r)
        /\ Len(CallsOf(r, "list")) = MaxBlocks
        /\ Len(blocks[r]) = MaxBlocks
        /\ blocks[r] = store[req[r].notionPageId[1]]
        /\ pc[r] = "awaitGenerate"

\* The text the claim gives a block sequence: each recognized block adds the
\* concatenation of its spans' plain text and one newline.
RECURSIVE JoinedBlocksText(_)
JoinedBlocksText(bs) ==
    IF bs = <<>> THEN <<>>
    ELSE (IF Head(bs).type \in RecognizedTypes
          THEN JoinSpans(Head(bs).rich_text) \o <<"\n">>
          ELSE <<>>)
         \o JoinedBlocksText(Tail(bs))

\* Every recognized block of the sequence has spans, none of them empty.
AllSpansFilled(bs) ==
    \A i \in DOMAIN bs :
        bs[i].type \in RecognizedTypes =>
            /\ bs[i].rich_text /= <<>>
            /\ \A j \in DOMAIN bs[i].rich_text : Truthy(bs[i].rich_text[j])

\* C14: the extracted text gives every recognized block the concatenation of
\* its spans followed by exactly one newline (spans "a" and "b" give "ab" and
\* a newline), and a page without recognized blocks gives the empty string.
\* Stated for pages whose recognized blocks all have non-empty spans.
C14_OneNewlinePerBlock ==
    \A r \in Reqs :
        LET page == store[req[r].notionPageId[1]] IN
        (ExtractionReturned(r) /\ ~Succeeded(r, "append") /\ AllSpansFilled(page)) =>
            contentToProcess[r] = JoinedBlocksText(page)

\* The capped variant's handler has got past resolving its text: the keys are
\* set, no URL fetch is pending or failed, and the text is not blank.
CappedTextResolved(r) ==
    /\ Configured
    /\ pc[r] \notin {"idle", "awaitFetch"}
    /\ ~Failed(r, "fetch")
    /\ ~IsBlank(sourceContent[r])

\* C15: in the capped variant, a request whose action is a case of the switch
\* and whose resolved text is not blank reaches exactly one generator call,
\* whose prompt is non-empty and contains the text cut to the cap.
C15_EveryCaseReachesGenerator ==
    \A r \in Reqs :
        (CappedTextResolved(r) /\ req[r].action \in CappedActions) =>
            /\ Len(CallsOf(r, "generate")) = 1
            /\ CallsOf(r, "generate")[1].prompt /= <<>>
            /\ Contains(CallsOf(r, "generate")[1].prompt,
                        Substring0(sourceContent[r], ContentCap))

\* C16: in the capped variant, a request whose action is missing or is not a
\* case of the switch never reaches the generator and, once answered, has
\* been answered with 400.
C16_UnknownActionRejected ==
    \A r \in Reqs :
        (Configured /\ pc[r] /= "idle" /\ req[r].action \notin CappedActions) =>
            /\ CallsOf(r, "generate") = <<>>
            /\ pc[r] = "done" => Responded(r, 400)

CatchPrefix == <<"Failed to process request: ">>
AppendFailurePrefix == <<"Failed to append content to Notion: ">>

\* The kind of failure a 500 of the handler's catch tells its reader, by the
\* wrapper the failing step put around the cause.
ErrorKind(error) ==
    CASE StartsWith(error, CatchPrefix \o AppendFailurePrefix) -> "AppendFailed"
      [] StartsWith(error, CatchPrefix \o FetchFailurePrefix) -> "ExtractionFailed"
      [] StartsWith(error, CatchPrefix) -> "GenerationFailed"
      [] OTHER -> "Other"

\* C17: a request whose append failed is answered with an error of the kind
\* AppendFailed, one whose generator call failed with an error of the kind
\* GenerationFailed, and each error ends with the message of its cause.
C17_AppendAndGeneratorFailuresDiffer ==
    \A r \in Reqs :
        /\ Failed(r, "append") =>
              /\ Responded(r, 500)
              /\ ErrorKind(ErrorOf(r)) = "AppendFailed"
              /\ ErrorOf(r) = CatchPrefix \o AppendFailurePrefix \o FailureCause(r)
        /\ Failed(r, "generate") =>
              /\ Responded(r, 500)
              /\ ErrorKind(ErrorOf(r)) = "GenerationFailed"
              /\ ErrorOf(r) = CatchPrefix \o FailureCause(r)

C17_Witness ==
    \E r \in Reqs : Failed(r, "append") /\ Succeeded(r, "generate") /\ pc[r] = "done"

\* The place of an external call in the pipeline.
StepRank(op) == CASE op = "list" -> 1 [] op = "generate" -> 2 [] op = "append" -> 3

\* C19: the calls of a request are made in pipeline order, list calls first,
\* then one generator call, then one append call, each later step only after
\* the earlier one succeeded; and a request that was answered with a failure,
\* or whose call failed, has made no call since.
C19_CallsInPipelineOrder ==
    \A r \in Reqs :
        /\ \A i, j \in DOMAIN calls[r] :
              i < j => /\ StepRank(calls[r][i].op) <= StepRank(calls[r][j].op)
                       /\ calls[r][i].op = "list" \/ calls[r][i].op /= calls[r][j].op
                       /\ replies[r][i].ok
        /\ CallsOf(r, "append") /= <<>> => Succeeded(r, "generate")
        /\ \A i \in DOMAIN replies[r] :
              ~replies[r][i].ok =>
                  /\ Len(calls[r]) = i
                  /\ Responded(r, 500)
        /\ (responses[r] /= <<>> /\ responses[r][1].status >= 400) =>
              /\ pc[r] = "done"
              /\ Len(calls[r]) = Len(replies[r])

C19_Witness ==
    \E r \in Reqs :
        /\ Len(CallsOf(r, "list")) >= 2
        /\ Len(CallsOf(r, "generate")) = 1
        /\ Succeeded(r, "append")

ListRepliesOf(r) == SelectSeq(replies[r], LAMBDA c : c.op = "list")

\* C20: the first list call has an undefined start cursor, each later one has
\* the continuation token of the reply before it, every list call names the
\* request's page with page size 100, no list call follows a reply whose
\* token is null or absent, and there are as many list calls as pages read.
C20_CursorChainFollowed ==
    \A r \in Reqs :
        LET L == CallsOf(r, "list")
            R == ListRepliesOf(r)
        IN /\ L /= <<>> => L[1].start_cursor = Undefined
           /\ \A i \in 2..Len(L) :
                 /\ R[i - 1].ok
                 /\ R[i - 1].next_cursor \notin {Null, Undefined}
                 /\ L[i].start_cursor = R[i - 1].next_cursor
           /\ \A i \in DOMAIN L :
                 L[i].block_id = req[r].notionPageId /\ L[i].page_size = 100
           /\ \A i \in DOMAIN R :
                 (R[i].ok /\ R[i].next_cursor \in {Null, Undefined}) => Len(L) = i
           /\ ExtractionReturned(r) =>
                 /\ Len(L) = Len(R)
                 /\ \A i \in DOMAIN R : R[i].ok

C20_Witness ==
    \E r \in Reqs :
        /\ ExtractionReturned(r)
        /\ Len(CallsOf(r, "list")) >= 2
        /\ CallsOf(r, "list")[2].start_cursor /= Undefined

\* The locals of a handler that has not started.
IdleLocal ==
    [pc |-> "idle", req |-> NoBody, contentToProcess |-> Undefined,
     prompt |-> Undefined, geminiResponse |-> Undefined,
     sourceContent |-> Undefined, generatedContent |-> Undefined,
     blocks |-> <<>>, cursor |-> Undefined, nExtract |-> 0, pageAtStart |-> <<>>,
     calls |-> <<>>, replies |-> <<>>, responses |-> <<>>]

\* The handler step a reply resumes.
StepOn(s, reply, notionClient) ==
    CASE reply.op = "list" -> OnListReply(Resume(s, reply), reply)
      [] reply.op = "generate" -> OnGenerateReply(Resume(s, reply), reply, notionClient)
      [] reply.op = "append" -> OnAppendReply(Resume(s, reply), reply)

RECURSIVE ReplayFrom(_, _, _, _)
ReplayFrom(s, reps, i, notionClient) ==
    IF i > Len(reps) THEN s
    ELSE ReplayFrom(StepOn(s, reps[i], notionClient), reps, i + 1, notionClient)

\* The locals a handler has when it runs alone on the request's body and is
\* given the replies the request's own calls got.
Replay(r) ==
    IF pc[r] = "idle" THEN IdleLocal
    ELSE ReplayFrom(HandlerStart(IdleLocal, req[r], notion, model), replies[r], 1, notion)

\* C18: however the steps of two requests interleave, the blocks, cursor,
\* resolved text, prompt, calls and response of each are those of a handler
\* run alone on its body and its own replies; and no step changes the
\* client handles.
C18_RequestsShareNoState ==
    /\ [](\A r \in Reqs :
            LET alone == Replay(r) IN
            /\ blocks[r] = alone.blocks
            /\ cursor[r] = alone.cursor
            /\ contentToProcess[r] = alone.contentToProcess
            /\ prompt[r] = alone.prompt
            /\ geminiResponse[r] = alone.geminiResponse
            /\ calls[r] = alone.calls
            /\ responses[r] = alone.responses
            /\ pc[r] = alone.pc)
    /\ [][notion' = notion /\ model' = model]_vars

\* Both requests are suspended in the middle of reading the page.
C18_Witness ==
    /\ Reqs = {"r1", "r2"}
    /\ \A r \in Reqs : pc[r] = "awaitList" /\ blocks[r] /= <<>>
    /\ req["r1"] /= req["r2"]

\* The request got past the three checks of lines 125-135.
Admitted(r) == pc[r] /= "idle" /\ Configured /\ Truthy(req[r].notionPageId)

\* What a prompt of server.js carries after its one-line instruction.
InterpolatedText(p) == Tail(p)

\* C21: a request whose content is non-empty after trimming never invokes the
\* extractor and its prompt carries the content as it was sent, untrimmed; a
\* request whose content is absent, empty or whitespace invokes the extractor
\* once, on its own page, and its prompt carries what the extractor made of
\* the blocks the list calls returned.
C21_OneSourceOfContent ==
    \A r \in Reqs :
        Admitted(r) =>
            LET G == CallsOf(r, "generate") IN
            IF HasContent(r)
            THEN /\ nExtract[r] = 0
                 /\ CallsOf(r, "list") = <<>>
                 /\ G /= <<>> => InterpolatedText(G[1].prompt) = req[r].content
            ELSE /\ nExtract[r] = 1
                 /\ \A i \in DOMAIN calls[r] :
                       calls[r][i].op = "list" => calls[r][i].block_id = req[r].notionPageId
                 /\ G /= <<>> =>
                       /\ ExtractionReturned(r)
                       /\ InterpolatedText(G[1].prompt) = ExtractText(RetrievedBlocks(replies[r]))

\* Whitespace was sent as content, the page was read and its text prompted.
C21_Witness ==
    \E r \in Reqs :
        /\ req[r].content = <<" ">>
        /\ ExtractionReturned(r)
        /\ CallsOf(r, "generate") /= <<>>

\* How many tokens of a capped prompt come before the interpolated text: the
\* instruction and the rule, for ask_question the question and its closing
\* words too, and in the default branch the instruction alone.
CappedHeaderLen(action, content) ==
    CASE action = <<"ask_question">> -> Len(content) + 3
      [] action \in CappedActions -> 2
      [] OTHER -> 1

CappedInterpolatedText(action, content, p) ==
    SubSeq(p, CappedHeaderLen(action, content) + 1, Len(p))

\* C22: in the capped variant the text put into the prompt is the prefix of
\* the source text of length min(n, 15000): a text of at most 15000
\* characters goes in whole, a longer one is cut after its 15000th character.
C22_PromptTextIsCappedPrefix ==
    \A r \in Reqs :
        CallsOf(r, "generate") /= <<>> =>
            LET source == sourceContent[r]
                n == Len(source)
                text == CappedInterpolatedText(req[r].action, req[r].content,
                                               CallsOf(r, "generate")[1].prompt)
            IN /\ Len(text) = Min(n, 15000)
               /\ text = SubSeq(source, 1, Len(text))
               /\ n <= 15000 => text = source

\* A text longer than the cap has been prompted.
C22_Witness ==
    \E r \in Reqs :
        /\ CallsOf(r, "generate") /= <<>>
        /\ Len(sourceContent[r]) > 15000

\* The request asked a question and its prompt has gone to the generator.
Asked(r) == req[r].action = <<"ask_question">> /\ CallsOf(r, "generate") /= <<>>

\* The question a prompt of the ask_question case embeds for a content of
\* this length, and the text it embeds after the rule.
EmbeddedQuestion(content, p) == SubSeq(p, 2, Len(content) + 1)
EmbeddedText(content, p) == SubSeq(p, Len(content) + 4, Len(p))

\* The text a successful URL fetch of the request returned.
FetchedText(r) ==
    LET i == CHOOSE i \in DOMAIN replies[r] : replies[r][i].op = "fetch" /\ replies[r][i].ok
    IN replies[r][i].text

\* C23: the prompt of an ask_question request is the question template around
\* the request's content as it was sent, then the rule, then the source text
\* cut to the cap; when the source text was fetched from a URL the question
\* is the URL and the text is the fetched body, and the two differ exactly
\* when the capped body is not the URL string itself.
C23_QuestionIsContentTextIsSource ==
    \A r \in Reqs :
        Asked(r) =>
            LET p == CallsOf(r, "generate")[1].prompt
                c == req[r].content
                text == SubSeq(sourceContent[r], 1, Min(Len(sourceContent[r]), 15000))
            IN /\ Len(p) = Len(c) + 3 + Len(text)
               /\ <<p[1]>> = AskPrefix
               /\ EmbeddedQuestion(c, p) = c
               /\ <<p[Len(c) + 2]>> = AskSuffix
               /\ <<p[Len(c) + 3]>> = TemplateRule
               /\ EmbeddedText(c, p) = text
               /\ Succeeded(r, "fetch") =>
                     /\ IsUrl(c)
                     /\ sourceContent[r] = FetchedText(r)
                     /\ (EmbeddedQuestion(c, p) /= EmbeddedText(c, p))
                            <=> (Substring0(FetchedText(r), 15000) /= c)

\* A question was asked about a fetched page whose text is not the URL.
C23_Witness ==
    \E r \in Reqs :
        /\ Asked(r)
        /\ Succeeded(r, "fetch")
        /\ FetchedText(r) = <<"w">>

\* C23 as stated: whenever the source text was derived, the question and the
\* text embedded in the prompt differ.
C23_DerivedTextDiffersFromQuestion ==
    \A r \in Reqs :
        (Asked(r) /\ Succeeded(r, "fetch")) =>
            EmbeddedQuestion(req[r].content, CallsOf(r, "generate")[1].prompt)
                /= EmbeddedText(req[r].content, CallsOf(r, "generate")[1].prompt)

\* A handler has returned exactly when it has sent its one response.
OneResponse ==
    \A r \in Reqs :
        /\ Len(responses[r]) <= 1
        /\ pc[r] = "done" <=> Len(responses[r]) = 1

\* A response that was sent is not sent again or changed.
ResponseIsFinal ==
    \A r \in Reqs : responses[r] /= <<>> => responses'[r] = responses[r]

\* C24: on every path the handler sends exactly one response, when it
\* returns, and never a second one; and when every external call is answered
\* or fails, a request that has arrived is eventually answered.
C24_ExactlyOneResponse ==
    /\ []OneResponse
    /\ [][ResponseIsFinal]_vars
    /\ \A r \in {"r1"} : (pc[r] /= "idle") ~> (pc[r] = "done" /\ Len(responses[r]) = 1)

\* The longest path: pages read, text generated, appended, answered.
C24_Witness ==
    \E r \in Reqs :
        /\ Len(replies[r]) >= 4
        /\ pc[r] = "done"
        /\ Len(responses[r]) = 1

\* C25: the text a request extracts is that of a snapshot of its page: when
\* its extraction has returned after two or more list calls, the text is the
\* text of the blocks that were on the page when the extraction began,
\* whatever another request appended to the page in the meantime.
C25_ExtractionIsASnapshot ==
    \A r \in Reqs :
        (ExtractionReturned(r) /\ Len(CallsOf(r, "list")) >= 2) =>
            contentToProcess[r] = ExtractText(pageAtStart[r])

====
